---------------------------- MODULE Spec2Model ----------------------------
(***************************************************************************)
(* Model of the email watcher (services/emailWatcher.js), the part of the  *)
(* Gmail service it calls (services/gmail.js) and the mailbox and the      *)
(* processed.json file they act on.                                        *)
(*                                                                         *)
(* A poll cycle is an async function: it runs to a call into the Mail      *)
(* Service, the Classifier Service or the file system, is suspended there, *)
(* and is resumed by the response.  Every in-flight call of startWatcher() *)
(* or poll() is a slot of cyc; one action is the code that runs from one   *)
(* response to the next call.  The code that runs between two candidates   *)
(* (the for loop of poll and the ledger test of processMessage) is the     *)
(* step NextCand; while a slot is at "next" no other action is enabled, so *)
(* that the synchronous code is atomic as it is in the event loop.         *)
(***************************************************************************)
EXTENDS Integers, Sequences, FiniteSets, TLC

(***************************************************************************)
(* Bounds of the model.                                                    *)
(***************************************************************************)
MaxCycles == 3        \* calls of poll() in one behaviour
MaxEvents == 2        \* 'message added' records the mailbox writes
MaxInFlight == 2      \* calls of startWatcher()/poll() suspended at once
MaxFaults == 1        \* calls that throw in one behaviour
MaxExpired == 1       \* answers 'cursor too old' in one behaviour

NearCap == 0          \* how far below its cap a stored ledger may begin
MsgIds == {"a", "b"}
OverlapIds == {"a"}   \* the messages of a behaviour whose calls overlap
Slots == 1..MaxInFlight

(***************************************************************************)
(* Program constants.                                                      *)
(***************************************************************************)
LedgerCap == 10000
RecentLimit == 20

Categories == {"IMPORTANT", "REVIEW", "JUNK"}

\* const LABELS: the names of the three labels
LABELS == [IMPORTANT |-> "AI-Important", REVIEW |-> "AI-Review", JUNK |-> "AI-Junk"]

\* processMessage's ourLabels
ourLabels == {"AI-Important", "AI-Review", "AI-Junk"}

\* The identifiers the mailbox may give the three labels (ensureLabels records
\* existing.id or newLabel.id): the mailbox's own opaque identifiers, or, for a
\* mailbox that names its labels' identifiers after them, the names.
LabelIdChoices ==
  { [IMPORTANT |-> "Label_1", REVIEW |-> "Label_2", JUNK |-> "Label_3"],
    LABELS }
NoLabelIds == [IMPORTANT |-> "none", REVIEW |-> "none", JUNK |-> "none"]

VARIABLES
  watcherInterval,  \* the timer handle, 0 for null
  lastHistoryId,    \* the cursor, 0 for null
  processedIds,     \* the ledger: a Set in insertion order
  stats,            \* the counters, lastRun, isRunning
  persisted,        \* processed.json
  authed,           \* gmail !== null
  labelIds,         \* gmail.js labelIds
  liveTimers,       \* the setInterval timers not cleared
  cyc,              \* the calls of startWatcher()/poll() in flight
  mbox,             \* the mailbox: each message's labels
  log,              \* the mailbox's 'message added' history records
  histId,           \* the mailbox's current history id
  lanes,            \* how many calls this behaviour lets be in flight at once
  nCycles,          \* calls of poll() so far
  nFaults,          \* calls that threw so far
  nExpired,         \* answers 'cursor too old' so far
  nLoads,           \* calls of loadProcessedIds() so far
  nClassify,        \* per message: calls of classifyEmail
  nMutate,          \* per message: label changes and trashings done
  nCount,           \* per message: increments of totalProcessed
  retry,            \* ids the last finished cycle left unmarked after an error
  apiKey,           \* process.env.OPENAI_API_KEY is set (and openai !== null)
  halted,           \* stopWatcher() has returned and startWatcher() was not
                    \* called since
  ret               \* what the call that has just ended gave its caller

vars == <<watcherInterval, lastHistoryId, processedIds, stats, persisted, authed,
          labelIds, liveTimers, cyc, mbox, log, histId, lanes, nCycles, nFaults,
          nExpired, nLoads, nClassify, nMutate, nCount, retry, apiKey, halted,
          ret>>

progVars == <<watcherInterval, lastHistoryId, processedIds, stats, persisted,
              liveTimers>>
envVars == <<authed, labelIds, mbox, log, histId>>
countVars == <<lanes, apiKey, nCycles, nFaults, nExpired>>
ghostVars == <<nLoads, nClassify, nMutate, nCount, retry, ret>>

----------------------------------------------------------------------------
(***************************************************************************)
(* Helpers.                                                                *)
(***************************************************************************)
Range(s) == {s[i] : i \in 1..Len(s)}

Min(a, b) == IF a < b THEN a ELSE b

\* Set.prototype.add: insertion order, no second entry
SetAdd(ids, m) ==
  IF \E i \in 1..Len(ids) : ids[i] = m THEN ids ELSE Append(ids, m)

\* Set.prototype.has
SetHas(ids, m) == \E i \in 1..Len(ids) : ids[i] = m

NoReq == [op |-> "none", id |-> "none", add |-> {}, remove |-> {}]
NoFile == [exists |-> FALSE, ids |-> <<>>, historyId |-> 0]

NoVerdict == [m \in MsgIds |-> "none"]

IdleCyc ==
  [pc |-> "idle", owner |-> "none", cands |-> <<>>, idx |-> 0,
   since |-> 0, limit |-> 0, email |-> {}, cls |-> "none", req |-> NoReq,
   file |-> NoFile,
   \* what follows records what the call has met and done
   cur0 |-> 0, zero |-> FALSE, solo |-> TRUE, expired |-> FALSE,
   full |-> FALSE, resolved |-> FALSE, recent |-> <<>>, tok |-> 0,
   errIds |-> {}, nErr |-> 0, nHit |-> 0, owed |-> {}, verdict |-> NoVerdict,
   atSave |-> [ids |-> <<>>, cursor |-> 0]]

\* no call has just ended
NoRet ==
  [op |-> "none", out |-> "none", http |-> "none", poll |-> "none",
   at |-> "none", val |-> <<>>]

InitStats ==
  [totalProcessed |-> 0, important |-> 0, review |-> 0, junk |-> 0,
   errors |-> 0, lastRun |-> 0, isRunning |-> FALSE]

Init ==
  /\ watcherInterval = 0
  /\ lastHistoryId = 0
  /\ processedIds = <<>>
  /\ stats = InitStats
  /\ persisted = NoFile
  /\ authed = FALSE
  /\ labelIds = NoLabelIds
  /\ liveTimers = {}
  /\ cyc = [s \in Slots |-> IdleCyc]
  /\ mbox = [m \in MsgIds |-> {}]
  /\ log = <<>>
  /\ histId = 1
  \* a behaviour has calls that throw and cursors that expire, or calls that
  \* overlap
  /\ lanes \in {1, MaxInFlight}
  /\ nCycles = 0
  /\ nFaults = IF lanes = 1 THEN 0 ELSE MaxFaults
  /\ nExpired = IF lanes = 1 THEN 0 ELSE MaxExpired
  /\ nLoads = 0
  /\ nClassify = [m \in MsgIds |-> 0]
  /\ nMutate = [m \in MsgIds |-> 0]
  /\ nCount = [m \in MsgIds |-> 0]
  /\ retry = {}
  /\ apiKey = TRUE
  /\ halted = FALSE
  /\ ret = NoRet

\* the ids of n messages handled by earlier runs of the program, oldest first
OldIds(n) == [i \in 1..n |-> ToString(i)]

\* The program is started beside a processed.json that earlier runs have
\* written: a ledger at its cap or just below it, and a cursor or none (a
\* save that began before another cycle cleared the cursor).  The mailbox is
\* authorised and the labels exist.  The calls of such a behaviour do not
\* overlap or meet an expired cursor, and one cycle is taken as done.  With a
\* stored cursor and an API key one call may throw; the program may also be
\* started without an API key.
SaveSetups ==
  { [historyId |-> 0, apiKey |-> TRUE, nFaults |-> MaxFaults],
    [historyId |-> 1, apiKey |-> TRUE, nFaults |-> 0],
    [historyId |-> 1, apiKey |-> FALSE, nFaults |-> MaxFaults] }

InitSave ==
  /\ watcherInterval = 0
  /\ lastHistoryId = 0
  /\ processedIds = <<>>
  /\ stats = InitStats
  /\ \E n \in (LedgerCap - NearCap)..LedgerCap, setup \in SaveSetups :
       /\ persisted = [exists |-> TRUE, ids |-> OldIds(n),
                       historyId |-> setup.historyId]
       /\ apiKey = setup.apiKey
       /\ nFaults = setup.nFaults
  /\ authed = TRUE
  /\ labelIds = [IMPORTANT |-> "Label_1", REVIEW |-> "Label_2", JUNK |-> "Label_3"]
  /\ liveTimers = {}
  /\ cyc = [s \in Slots |-> IdleCyc]
  /\ mbox = [m \in MsgIds |-> {}]
  /\ log = <<>>
  /\ histId = 1
  /\ lanes = 1
  /\ nCycles = 1
  /\ nExpired = MaxExpired
  /\ nLoads = 0
  /\ nClassify = [m \in MsgIds |-> 0]
  /\ nMutate = [m \in MsgIds |-> 0]
  /\ nCount = [m \in MsgIds |-> 0]
  /\ retry = {}
  /\ halted = FALSE
  /\ ret = NoRet

\* The watcher is running: it was started beside an empty mailbox and no
\* processed.json, its first cycle (a full sync) found nothing and took the
\* cursor, and the timer is armed.  No call throws and no cursor expires; the
\* timer may fire while a cycle is suspended in a call.
InitOverlap ==
  /\ watcherInterval = 1
  /\ lastHistoryId = 1
  /\ processedIds = <<>>
  /\ stats = [InitStats EXCEPT !.lastRun = 1, !.isRunning = TRUE]
  /\ persisted = NoFile
  /\ authed = TRUE
  /\ labelIds = [IMPORTANT |-> "Label_1", REVIEW |-> "Label_2", JUNK |-> "Label_3"]
  /\ liveTimers = {1}
  /\ cyc = [s \in Slots |-> IdleCyc]
  /\ mbox = [m \in MsgIds |-> {}]
  /\ log = <<>>
  /\ histId = 1
  /\ lanes = MaxInFlight
  /\ nCycles = 1
  /\ nFaults = MaxFaults
  /\ nExpired = MaxExpired
  /\ nLoads = 1
  /\ nClassify = [m \in MsgIds |-> 0]
  /\ nMutate = [m \in MsgIds |-> 0]
  /\ nCount = [m \in MsgIds |-> 0]
  /\ retry = {}
  /\ apiKey = TRUE
  /\ halted = FALSE
  /\ ret = NoRet

----------------------------------------------------------------------------
(***************************************************************************)
(* The Mail Service: what the mailbox answers.                             *)
(***************************************************************************)
\* users.history.list({startHistoryId, historyTypes: ['messageAdded']}): the
\* history records after startHistoryId, and the mailbox's current history id
RECURSIVE RecordsAfter(_, _)
RecordsAfter(h, i) ==
  IF i > Len(log) THEN <<>>
  ELSE IF log[i].id > h THEN <<log[i]>> \o RecordsAfter(h, i + 1)
  ELSE RecordsAfter(h, i + 1)

HistoryList(h) == [history |-> RecordsAfter(h, 1), historyId |-> histId]

\* users.messages.list({q: 'in:inbox', maxResults}): the inbox, newest first
RECURSIVE InboxUpTo(_)
InboxUpTo(i) ==
  IF i = 0 THEN <<>>
  ELSE LET m == log[i].messagesAdded[1]
           first == \A j \in 1..(i - 1) : log[j].messagesAdded[1] # m
       IN IF first /\ "INBOX" \in mbox[m]
          THEN <<m>> \o InboxUpTo(i - 1)
          ELSE InboxUpTo(i - 1)

MessagesList(maxResults) ==
  LET all == InboxUpTo(Len(log))
  IN [i \in 1..Min(maxResults, Len(all)) |->
        [id |-> all[i], labelIds |-> mbox[all[i]]]]

\* users.messages.modify and users.messages.trash
Served(labels, req) ==
  IF req.op = "trash" THEN (labels \ {"INBOX"}) \cup {"TRASH"}
  ELSE (labels \cup req.add) \ req.remove

----------------------------------------------------------------------------
(***************************************************************************)
(* The code's pure parts.                                                  *)
(***************************************************************************)
\* as AddedIds, but an id is taken once only
RECURSIVE AddedIdsOnce(_)
AddedIdsOnce(items) ==
  IF items = <<>> THEN <<>>
  ELSE LET rest == AddedIdsOnce(Tail(items))
       IN IF \E i \in 1..Len(rest) : rest[i] = Head(items).messagesAdded[1]
          THEN rest
          ELSE Head(items).messagesAdded \o rest

\* poll: the loops over history.history and item.messagesAdded
RECURSIVE AddedIds(_)
AddedIds(items) ==
  IF items = <<>> THEN <<>>
  ELSE Head(items).messagesAdded \o AddedIds(Tail(items))

\* as NotInInbox, but the test is never met
InboxNotTested(email) == FALSE

\* processMessage: the two skip tests on the fetched message
NotInInbox(email) == "INBOX" \notin email

HasOurLabel(email) == \E id \in email : id \in ourLabels

\* as ClassificationCall, but REVIEW leaves the message in the inbox
ClassificationCallKeepsInbox(ids, m, classification) ==
  IF classification = "JUNK"
  THEN [op |-> "trash", id |-> m, add |-> {}, remove |-> {}]
  ELSE [op |-> "modify", id |-> m, add |-> {ids[classification]},
        remove |-> {}]

\* applyClassification: the call it makes
ClassificationCall(ids, m, classification) ==
  IF classification = "JUNK"
  THEN [op |-> "trash", id |-> m, add |-> {}, remove |-> {}]
  ELSE [op |-> "modify", id |-> m, add |-> {ids[classification]},
        remove |-> IF classification = "REVIEW" THEN {"INBOX"} ELSE {}]

\* processMessage: stats.totalProcessed++; stats[classification.toLowerCase()]++
\* as Counted, but the category counters are left alone
CountedInTotalOnly(st, classification) ==
  [st EXCEPT !.totalProcessed = @ + 1]

\* as Counted, but totalProcessed is left alone
CountedInCategoryOnly(st, classification) ==
  CASE classification = "IMPORTANT" -> [st EXCEPT !.important = @ + 1]
    [] classification = "REVIEW" -> [st EXCEPT !.review = @ + 1]
    [] OTHER -> [st EXCEPT !.junk = @ + 1]

Counted(st, classification) ==
  LET t == [st EXCEPT !.totalProcessed = @ + 1]
  IN CASE classification = "IMPORTANT" -> [t EXCEPT !.important = @ + 1]
       [] classification = "REVIEW" -> [t EXCEPT !.review = @ + 1]
       [] OTHER -> [t EXCEPT !.junk = @ + 1]

\* What openai.chat.completions.create may do: reject, answer something that
\* is not the JSON asked for, or answer JSON with a classification, a
\* confidence (a number in hundredths, or not a number) and a reason or none.
Confidences ==
  {[num |-> TRUE, val |-> -1], [num |-> TRUE, val |-> 0],
   [num |-> TRUE, val |-> 100], [num |-> TRUE, val |-> 101],
   [num |-> FALSE, val |-> 0]}

Responses ==
  [kind : {"rejects", "garbage"}, classification : {"none"},
   confidence : {[num |-> FALSE, val |-> 0]}, reason : {""}]
  \cup [kind : {"json"}, classification : Categories \cup {"SPAM"},
        confidence : Confidences, reason : {"", "text"}]

\* classifyEmail(email), given whether a key is configured and what the remote
\* call does
classifyEmail(key, response) ==
  IF ~key
  THEN [threw |-> TRUE, classification |-> "none", confidence |-> 0,
        reason |-> "OPENAI_API_KEY not set"]
  ELSE IF response.kind # "json" \/ response.classification \notin Categories
  THEN [threw |-> FALSE, classification |-> "REVIEW", confidence |-> 0,
        reason |-> "Classification error"]
  ELSE [threw |-> FALSE, classification |-> response.classification,
        confidence |-> IF ~response.confidence.num \/ response.confidence.val < 0
                          \/ response.confidence.val > 100
                       THEN 50 ELSE response.confidence.val,
        reason |-> IF response.reason = "" THEN "No reason provided"
                   ELSE response.reason]

\* the catch blocks of processMessage and poll: stats.errors++
Errored(st) == [st EXCEPT !.errors = @ + 1]

\* as Trimmed, but the oldest ids are the ones kept
TrimmedFromFront(ids) ==
  IF Len(ids) > LedgerCap THEN SubSeq(ids, 1, LedgerCap) ELSE ids

\* saveProcessedIds: idsArray.slice(-10000)
Trimmed(ids) ==
  IF Len(ids) > LedgerCap THEN SubSeq(ids, Len(ids) - LedgerCap + 1, Len(ids))
  ELSE ids

\* poll: messages.map(m => m.id)
RECURSIVE IdsOf(_)
IdsOf(messages) ==
  IF messages = <<>> THEN <<>>
  ELSE <<Head(messages).id>> \o IdsOf(Tail(messages))

\* as CursorOnExpiry, but the cursor is kept
CursorKept(cursor) == cursor

\* as CursorOnFailure, but the cursor is cleared
CursorCleared(cursor) == 0

\* poll, on a null answer of listHistory: lastHistoryId = null
CursorOnExpiry(cursor) == 0

\* the catch block of poll: the cursor is as it was when the call threw
CursorOnFailure(cursor) == cursor

\* poll, on an answer of listHistory: lastHistoryId = history.historyId
CursorOnHistory(cursor, data) == data.historyId

----------------------------------------------------------------------------
(***************************************************************************)
(* Slots.                                                                  *)
(***************************************************************************)
Free(s) == cyc[s].pc = "idle"
InFlight(s) == ~Free(s)
HasFree == \E s \in 1..lanes : Free(s)
FreeSlot == CHOOSE s \in Slots : Free(s) /\ \A t \in Slots : Free(t) => s <= t

\* synchronous code is running, or a call has ended and its caller has not
\* yet taken what it gave: nothing else is scheduled before that
Busy == (\E s \in Slots : cyc[s].pc = "next") \/ ret # NoRet

\* as isAuthenticated, but the answer is always yes
AlwaysAuthenticated(gmail) == TRUE

\* gmail.js isAuthenticated(): gmail !== null
isAuthenticated(gmail) == gmail

\* isWatcherRunning()
isWatcherRunning(interval) == interval # 0

\* as PostWatcherStart, but the route answers by what startWatcher() returns
PostWatcherStartByResult(running, outcome) ==
  IF outcome = "true" THEN "success" ELSE "error500"

\* POST /watcher/start: what the route answers, given what startWatcher() did
\* if the route called it
PostWatcherStart(running, outcome) ==
  IF running THEN "success"
  ELSE IF outcome = "throws" THEN "error500"
  ELSE "success"

\* what routes/api.js imports from services/emailWatcher.js
ApiImports == {"startWatcher", "stopWatcher", "getWatcherStatus", "isWatcherRunning"}

\* an identifier used in routes/api.js is bound (the module is strict: the use
\* of an unbound one throws ReferenceError)
Bound(name) == name \in ApiImports

\* GET /watcher/poll: what the route answers, given what 'await poll()' did if
\* the route reached it
GetWatcherPollAnswer(running, outcome) ==
  IF running THEN "already running"
  ELSE IF outcome = "throws" THEN "error500"
  ELSE "success"

\* poll: everything after the test of isAuthenticated() is in try/catch
PollOutcome(threw) == "returned"

\* startWatcher after 'await poll()'
StartOutcome(pollOutcome) == IF pollOutcome = "returned" THEN "true" ELSE "throws"

\* what a call that ends without having started a cycle gives its caller
Gives(op, out, http) ==
  [op |-> op, out |-> out, http |-> http, poll |-> "none", at |-> "none",
   val |-> <<>>]

\* what a call may answer: it may throw while the model's bound allows
Answers == IF nFaults < MaxFaults THEN {"ok", "throws"} ELSE {"ok"}
Thrown(out) == nFaults' = IF out = "throws" THEN nFaults + 1 ELSE nFaults

SetMax(S) == CHOOSE x \in S : \A y \in S : y <= x
NewTimer == 1 + SetMax(liveTimers \cup {0})

AllZero(st) ==
  /\ st.totalProcessed = 0 /\ st.important = 0 /\ st.review = 0
  /\ st.junk = 0 /\ st.errors = 0

\* poll() up to its first call: listHistory(lastHistoryId) with a cursor,
\* getRecentMessages(20) without
Entered(s, c, cursor, ids, st) ==
  [c EXCEPT !.pc = IF cursor # 0 THEN "hist" ELSE "recent",
            !.since = cursor,
            !.limit = IF cursor # 0 THEN 0 ELSE RecentLimit,
            !.cur0 = cursor, !.full = (cursor = 0),
            !.zero = (cursor = 0 /\ ids = <<>> /\ AllZero(st)),
            !.solo = \A t \in Slots \ {s} : Free(t),
            !.owed = retry]

\* the slots after slot s has entered poll() as c: a cycle that runs beside
\* another one is no longer alone
WithEntered(s, c) ==
  [t \in Slots |-> IF t = s THEN c
                   ELSE IF InFlight(t) THEN [cyc[t] EXCEPT !.solo = FALSE]
                   ELSE cyc[t]]

\* poll() returns in slot s.  In startWatcher() the code after 'await poll()'
\* follows: setInterval, stats.isRunning = true
Finish(s, c, st) ==
  LET outcome == PollOutcome(nFaults' # nFaults)
      started == StartOutcome(outcome) IN
  /\ cyc' = [cyc EXCEPT ![s] = IdleCyc]
  /\ IF c.owner = "start" /\ started = "true"
     THEN /\ watcherInterval' = NewTimer
          /\ liveTimers' = liveTimers \cup {NewTimer}
          /\ stats' = [st EXCEPT !.isRunning = TRUE]
     ELSE /\ stats' = st
          /\ UNCHANGED <<watcherInterval, liveTimers>>
  /\ retry' = {m \in c.errIds : ~SetHas(processedIds', m)}
  /\ ret' = IF c.owner = "start"
            THEN [op |-> "start", out |-> started,
                  http |-> PostWatcherStart(FALSE, started),
                  poll |-> outcome, at |-> c.pc, val |-> <<>>]
            ELSE IF c.owner = "route"
            THEN [op |-> "GET /watcher/poll", out |-> outcome,
                  http |-> GetWatcherPollAnswer(FALSE, outcome),
                  poll |-> outcome, at |-> c.pc,
                  val |-> <<stats'.totalProcessed, stats'.lastRun>>]
            ELSE [op |-> "poll", out |-> outcome, http |-> "none",
                  poll |-> outcome, at |-> c.pc, val |-> <<>>]

\* poll() goes on in slot s
Continue(s, c, st) ==
  /\ cyc' = [cyc EXCEPT ![s] = c]
  /\ stats' = st
  /\ UNCHANGED <<watcherInterval, liveTimers, retry, ret>>

\* as Resolved, but without the test 'messagesToProcess.length > 0'
ResolvedSavesAlways(s, c, st) ==
  Continue(s, [c EXCEPT !.pc = "next", !.idx = 1, !.resolved = TRUE], st)

\* poll() after the candidates are resolved: the loop, or nothing to do
Resolved(s, c, st) ==
  IF c.cands # <<>>
  THEN Continue(s, [c EXCEPT !.pc = "next", !.idx = 1, !.resolved = TRUE], st)
  ELSE Finish(s, c, st)

\* poll() after listHistory: 'if (!lastHistoryId)', the full sync
AfterHistory(s, c, cursor, st) ==
  IF cursor = 0
  THEN Continue(s, [c EXCEPT !.pc = "recent", !.limit = RecentLimit,
                             !.full = TRUE], st)
  ELSE Resolved(s, c, st)

\* as MessageFailed, but without processMessage's own catch block: the
\* exception reaches the catch block of poll
MessageFailedAborts(s, c) == Finish(s, c, Errored(stats))

\* the catch block of processMessage: on to the next candidate
MessageFailed(s, c) ==
  Continue(s, [c EXCEPT !.pc = "next", !.idx = @ + 1,
                        !.email = {}, !.cls = "none", !.req = NoReq,
                        !.errIds = @ \cup {c.cands[c.idx]}, !.nErr = @ + 1],
           Errored(stats))

----------------------------------------------------------------------------
(***************************************************************************)
(* The environment.                                                        *)
(***************************************************************************)
\* handleAuthCallback / initializeGmail: gmail is set, and never unset, and
\* ensureLabels records the identifiers of the three labels
Authenticate ==
  /\ ~Busy
  /\ ~authed
  /\ authed' = TRUE
  /\ labelIds' \in LabelIdChoices
  /\ UNCHANGED <<progVars, ghostVars, countVars, halted, cyc, mbox, log, histId>>

\* the mailbox records 'message added' for m: a new message in the inbox, or
\* one more record for a message it holds
Delivered(m) ==
  /\ ~Busy
  /\ Len(log) < MaxEvents
  /\ histId' = histId + 1
  /\ log' = Append(log, [id |-> histId + 1, messagesAdded |-> <<m>>])
  /\ mbox' = IF \E i \in 1..Len(log) : log[i].messagesAdded[1] = m
             THEN mbox ELSE [mbox EXCEPT ![m] = {"INBOX"}]
  /\ UNCHANGED <<progVars, ghostVars, countVars, halted, authed, labelIds, cyc>>

\* as Delivered, for the messages of the behaviour
Arrive(m) ==
  /\ lanes = 1 \/ m \in OverlapIds
  /\ Delivered(m)

----------------------------------------------------------------------------
(***************************************************************************)
(* startWatcher, stopWatcher, the timer.                                   *)
(***************************************************************************)
\* startWatcher() up to 'await loadProcessedIds()', called by initialize() or
\* by POST /watcher/start (which answers at once when the watcher is running)
StartCall ==
  /\ ~Busy
  /\ HasFree
  /\ nCycles < MaxCycles
  /\ halted' = FALSE
  /\ UNCHANGED <<progVars, envVars, lanes, apiKey, nFaults, nExpired, nLoads,
                 nClassify, nMutate, nCount, retry>>
  /\ IF watcherInterval # 0
     THEN /\ ret' = Gives("start", "false",
                          PostWatcherStart(isWatcherRunning(watcherInterval), "false"))
          /\ UNCHANGED <<cyc, nCycles>>
     ELSE IF ~isAuthenticated(authed)
     THEN /\ ret' = Gives("start", "throws",
                          PostWatcherStart(isWatcherRunning(watcherInterval), "throws"))
          /\ UNCHANGED <<cyc, nCycles>>
     ELSE /\ cyc' = [cyc EXCEPT ![FreeSlot] =
                       [IdleCyc EXCEPT !.pc = "load", !.owner = "start"]]
          /\ nCycles' = nCycles + 1
          /\ UNCHANGED ret

\* loadProcessedIds() ends (the file is read, or the catch block runs), and
\* startWatcher() goes on into poll()
LoadDone(s) ==
  /\ ~Busy
  /\ cyc[s].pc = "load"
  /\ \E out \in (IF persisted.exists THEN Answers ELSE {"absent"}) :
       /\ processedIds' = IF out = "ok" THEN persisted.ids ELSE <<>>
       /\ lastHistoryId' = IF out = "ok" THEN persisted.historyId
                           ELSE lastHistoryId
       /\ Thrown(out)
  /\ nLoads' = nLoads + 1
  /\ stats' = [stats EXCEPT !.lastRun = nCycles]
  /\ cyc' = WithEntered(s, Entered(s, cyc[s], lastHistoryId', processedIds', stats))
  /\ UNCHANGED <<watcherInterval, persisted, liveTimers, envVars, lanes, apiKey, halted, nCycles,
                 nExpired, nClassify, nMutate, nCount, retry, ret>>

\* poll() is called: it returns at once when the mailbox is not authorised,
\* and runs to its first call otherwise
PollEnter(owner) ==
  /\ UNCHANGED <<watcherInterval, lastHistoryId, processedIds, persisted,
                 liveTimers, envVars, lanes, apiKey, halted, nFaults, nExpired,
                 nLoads, nClassify, nMutate, nCount, retry>>
  /\ IF ~isAuthenticated(authed)
     THEN /\ ret' = [op |-> "poll", out |-> "returned", http |-> "none",
                     poll |-> "returned", at |-> "auth", val |-> <<>>]
          /\ UNCHANGED <<nCycles, stats, cyc>>
     ELSE /\ nCycles' = nCycles + 1
          /\ stats' = [stats EXCEPT !.lastRun = nCycles + 1]
          /\ cyc' = WithEntered(FreeSlot,
                      Entered(FreeSlot, [IdleCyc EXCEPT !.owner = owner],
                              lastHistoryId, processedIds, stats))
          /\ UNCHANGED ret

\* a timer fires: poll()
TimerTick ==
  /\ ~Busy
  /\ HasFree
  /\ nCycles < MaxCycles
  /\ liveTimers # {}
  /\ PollEnter("timer")

\* the exported poll() is called from outside the watcher
PollCall ==
  /\ ~Busy
  /\ HasFree
  /\ nCycles < MaxCycles
  /\ lanes = 1 /\ PollEnter("direct")

\* GET /watcher/poll: the route answers at once when the watcher is running;
\* otherwise it calls poll() and answers with totalProcessed and lastRun
GetWatcherPoll ==
  /\ ~Busy
  /\ HasFree
  /\ nCycles < MaxCycles
  /\ lanes = 1
  /\ IF isWatcherRunning(watcherInterval) \/ ~Bound("poll")
        \/ ~isAuthenticated(authed)
     THEN /\ ret' = [op |-> "GET /watcher/poll",
                     out |-> IF isWatcherRunning(watcherInterval) THEN "none"
                             ELSE IF ~Bound("poll") THEN "throws"
                             ELSE "returned",
                     http |-> GetWatcherPollAnswer(
                                isWatcherRunning(watcherInterval),
                                IF ~Bound("poll") THEN "throws" ELSE "returned"),
                     poll |-> "none", at |-> "none",
                     val |-> IF isWatcherRunning(watcherInterval) \/ ~Bound("poll")
                             THEN <<>>
                             ELSE <<stats.totalProcessed, stats.lastRun>>]
          /\ UNCHANGED <<progVars, envVars, countVars, halted, cyc, nLoads,
                         nClassify, nMutate, nCount, retry>>
     ELSE PollEnter("route")

\* stopWatcher()
StopCall ==
  /\ ~Busy
  /\ halted' = TRUE
  /\ UNCHANGED <<lastHistoryId, processedIds, persisted, envVars, countVars, cyc,
                 ghostVars>>
  /\ IF watcherInterval # 0
     THEN /\ liveTimers' = liveTimers \ {watcherInterval}
          /\ watcherInterval' = 0
          /\ stats' = [stats EXCEPT !.isRunning = FALSE]
     ELSE UNCHANGED <<liveTimers, watcherInterval, stats>>

\* getWatcherStatus(): { ...stats, processedCount: processedIds.size }, a new
\* object (shared says whether it is the stats object itself)
getWatcherStatus(st, ids) ==
  [obj |-> [totalProcessed |-> st.totalProcessed, important |-> st.important,
            review |-> st.review, junk |-> st.junk, errors |-> st.errors,
            lastRun |-> st.lastRun, isRunning |-> st.isRunning,
            processedCount |-> Len(ids)],
   shared |-> FALSE]

\* GET /status calls getWatcherStatus(), and its caller may write a field of
\* the object it is given: that reaches stats only if the object is shared
StatusCall ==
  /\ ~Busy
  /\ LET snapshot == getWatcherStatus(stats, processedIds) IN
     stats' = IF snapshot.shared
              THEN [stats EXCEPT !.totalProcessed = @ + 1] ELSE stats
  /\ UNCHANGED <<watcherInterval, lastHistoryId, processedIds, persisted,
                 liveTimers, envVars, countVars, halted, cyc, ghostVars>>

\* the caller takes what the call gave it
Returned ==
  /\ ret # NoRet
  /\ ret' = NoRet
  /\ UNCHANGED <<progVars, envVars, countVars, halted, cyc, nLoads, nClassify,
                 nMutate, nCount, retry>>

----------------------------------------------------------------------------
(***************************************************************************)
(* poll: candidate resolution.                                             *)
(***************************************************************************)
\* listHistory(lastHistoryId) answers: it throws, it returns null (the cursor
\* is too old), or it returns the records after the cursor
HistResp(s) ==
  LET c == cyc[s] IN
  /\ ~Busy
  /\ c.pc = "hist"
  /\ UNCHANGED <<processedIds, persisted, envVars, lanes, apiKey, halted, nCycles, nLoads, nClassify,
                 nMutate, nCount>>
  /\ \E out \in Answers \cup (IF nExpired < MaxExpired THEN {"expired"} ELSE {}) :
       /\ Thrown(out)
       /\ nExpired' = IF out = "expired" THEN nExpired + 1 ELSE nExpired
       /\ CASE out = "throws" ->
                 /\ lastHistoryId' = CursorOnFailure(lastHistoryId)
                 /\ Finish(s, c, Errored(stats))
            [] out = "expired" ->
                 /\ lastHistoryId' = CursorOnExpiry(lastHistoryId)
                 /\ AfterHistory(s, [c EXCEPT !.expired = TRUE], lastHistoryId',
                                 stats)
            [] OTHER ->
                 LET data == HistoryList(c.since) IN
                 /\ lastHistoryId' = CursorOnHistory(lastHistoryId, data)
                 /\ AfterHistory(s, [c EXCEPT !.cands = AddedIds(data.history)],
                                 lastHistoryId', stats)

\* getRecentMessages(20) answers
RecentResp(s) ==
  LET c == cyc[s] IN
  /\ ~Busy
  /\ c.pc = "recent"
  /\ UNCHANGED <<processedIds, persisted, envVars, lanes, apiKey, halted, nCycles, nExpired, nLoads,
                 nClassify, nMutate, nCount>>
  /\ \E out \in Answers :
       /\ Thrown(out)
       /\ IF out = "ok"
          THEN LET messages == MessagesList(c.limit) IN
               /\ UNCHANGED lastHistoryId
               /\ Continue(s, [c EXCEPT !.pc = "token", !.recent = messages,
                                        !.cands = IdsOf(messages)], stats)
          ELSE /\ lastHistoryId' = CursorOnFailure(lastHistoryId)
               /\ Finish(s, c, Errored(stats))

\* getHistoryId() answers
TokenResp(s) ==
  LET c == cyc[s] IN
  /\ ~Busy
  /\ c.pc = "token"
  /\ UNCHANGED <<processedIds, persisted, envVars, lanes, apiKey, halted, nCycles, nExpired, nLoads,
                 nClassify, nMutate, nCount>>
  /\ \E out \in Answers :
       /\ Thrown(out)
       /\ IF out = "ok"
          THEN /\ lastHistoryId' = histId
               /\ Resolved(s, [c EXCEPT !.tok = histId], stats)
          ELSE /\ lastHistoryId' = CursorOnFailure(lastHistoryId)
               /\ Finish(s, c, Errored(stats))

----------------------------------------------------------------------------
(***************************************************************************)
(* poll and processMessage: one candidate after the other, then the save.  *)
(***************************************************************************)
Cand(c) == c.cands[c.idx]

\* The for loop of poll() and the start of processMessage(): past the last
\* candidate saveProcessedIds() is called (its mkdir); a candidate in the
\* ledger is skipped; any other is fetched (getMessage)
\* as AfterLedgerTest, but a candidate in the ledger is fetched all the same
AfterLedgerTestFetches(c, ids) ==
  IF c.idx > Len(c.cands) THEN [c EXCEPT !.pc = "mkdir"]
  ELSE [c EXCEPT !.pc = "fetch"]

AfterLedgerTest(c, ids) ==
  IF c.idx > Len(c.cands) THEN [c EXCEPT !.pc = "mkdir"]
  ELSE IF SetHas(ids, Cand(c)) THEN [c EXCEPT !.idx = @ + 1, !.nHit = @ + 1]
  ELSE [c EXCEPT !.pc = "fetch"]

\* saveProcessedIds() is called: what the ledger and the cursor are then
SaveBegun(c, ids, cursor) ==
  IF c.pc = "mkdir" THEN [c EXCEPT !.atSave = [ids |-> ids, cursor |-> cursor]]
  ELSE c

NextCand(s) ==
  /\ cyc[s].pc = "next"
  /\ cyc' = [cyc EXCEPT ![s] = SaveBegun(AfterLedgerTest(cyc[s], processedIds),
                                         processedIds, lastHistoryId)]
  /\ UNCHANGED <<progVars, envVars, ghostVars, countVars, halted>>

\* processMessage after a test has marked the message, or after it is counted
Marked(c) ==
  [c EXCEPT !.pc = "next", !.idx = @ + 1, !.email = {}, !.cls = "none",
            !.req = NoReq]

\* getMessage answers: processMessage's skip tests, or classifyEmail is called
FetchResp(s) ==
  LET c == cyc[s]
      m == Cand(c) IN
  /\ ~Busy
  /\ c.pc = "fetch"
  /\ UNCHANGED <<lastHistoryId, persisted, envVars, lanes, apiKey, halted, nCycles, nExpired, nLoads,
                 nMutate, nCount>>
  /\ \E out \in Answers :
       /\ Thrown(out)
       /\ IF out = "throws"
          THEN /\ UNCHANGED <<processedIds, nClassify>>
               /\ MessageFailed(s, c)
          ELSE LET email == mbox[m] IN
               IF NotInInbox(email) \/ HasOurLabel(email)
               THEN /\ processedIds' = SetAdd(processedIds, m)
                    /\ UNCHANGED nClassify
                    /\ Continue(s, Marked(c), stats)
               ELSE /\ UNCHANGED processedIds
                    /\ nClassify' = [nClassify EXCEPT ![m] = @ + 1]
                    /\ Continue(s, [c EXCEPT !.pc = "classify", !.email = email],
                                stats)

\* classifyEmail ends: it throws (initializeOpenAI without a key) or returns
\* a result; with a result, applyClassification makes its call
ClassifyResp(s) ==
  LET c == cyc[s]
      m == Cand(c) IN
  /\ ~Busy
  /\ c.pc = "classify"
  /\ UNCHANGED <<lastHistoryId, processedIds, persisted, envVars, lanes, apiKey, halted, nCycles,
                 nExpired, nLoads, nClassify, nMutate, nCount>>
  /\ \E result \in {classifyEmail(apiKey, response) : response \in Responses} :
       IF result.threw
       THEN /\ nFaults' = nFaults + 1
            /\ MessageFailed(s, c)
       ELSE /\ nFaults' = nFaults
            /\ Continue(s, [c EXCEPT !.pc = "apply",
                                     !.cls = result.classification,
                                     !.verdict[m] = result.classification,
                                     !.req = ClassificationCall(labelIds, m,
                                               result.classification)],
                        stats)

\* the call of applyClassification answers: the mailbox has changed and the
\* message is marked and counted, or the call throws
ApplyResp(s) ==
  LET c == cyc[s]
      m == Cand(c) IN
  /\ ~Busy
  /\ c.pc = "apply"
  /\ UNCHANGED <<lastHistoryId, persisted, authed, labelIds, log, lanes, apiKey, halted, nCycles,
                 nExpired, nLoads, nClassify>>
  /\ \E out \in Answers :
       /\ Thrown(out)
       /\ IF out = "ok"
          THEN /\ mbox' = [mbox EXCEPT ![m] = Served(@, c.req)]
               /\ histId' = histId + 1
               /\ nMutate' = [nMutate EXCEPT ![m] = @ + 1]
               /\ processedIds' = SetAdd(processedIds, m)
               /\ nCount' = [nCount EXCEPT ![m] = @ + 1]
               /\ Continue(s, Marked(c), Counted(stats, c.cls))
          ELSE /\ UNCHANGED <<mbox, histId, nMutate, processedIds, nCount>>
               /\ MessageFailed(s, c)

\* saveProcessedIds: mkdir answers; the ledger is trimmed and writeFile called
MkdirResp(s) ==
  LET c == cyc[s] IN
  /\ ~Busy
  /\ c.pc = "mkdir"
  /\ UNCHANGED <<lastHistoryId, persisted, envVars, lanes, apiKey, halted, nCycles, nExpired, nLoads,
                 nClassify, nMutate, nCount>>
  /\ \E out \in Answers :
       /\ Thrown(out)
       /\ IF out = "ok"
          THEN /\ processedIds' = Trimmed(processedIds)
               /\ Continue(s, [c EXCEPT !.pc = "write",
                                 !.file = [exists |-> TRUE, ids |-> processedIds',
                                           historyId |-> lastHistoryId]],
                           stats)
          ELSE /\ UNCHANGED processedIds
               /\ Finish(s, c, Errored(stats))

\* saveProcessedIds: writeFile answers
WriteResp(s) ==
  LET c == cyc[s] IN
  /\ ~Busy
  /\ c.pc = "write"
  /\ UNCHANGED <<lastHistoryId, processedIds, envVars, lanes, apiKey, halted, nCycles, nExpired,
                 nLoads, nClassify, nMutate, nCount>>
  /\ \E out \in Answers :
       /\ Thrown(out)
       /\ IF out = "ok"
          THEN /\ persisted' = c.file
               /\ Finish(s, c, stats)
          ELSE /\ UNCHANGED persisted
               /\ Finish(s, c, Errored(stats))

----------------------------------------------------------------------------
Next ==
  \/ Authenticate
  \/ \E m \in MsgIds : Arrive(m)
  \/ StartCall
  \/ \E s \in Slots : LoadDone(s)
  \/ TimerTick
  \/ StopCall
  \/ PollCall
  \/ GetWatcherPoll
  \/ StatusCall
  \/ Returned
  \/ \E s \in Slots : HistResp(s)
  \/ \E s \in Slots : RecentResp(s)
  \/ \E s \in Slots : TokenResp(s)
  \/ \E s \in Slots : NextCand(s)
  \/ \E s \in Slots : FetchResp(s)
  \/ \E s \in Slots : ClassifyResp(s)
  \/ \E s \in Slots : ApplyResp(s)
  \/ \E s \in Slots : MkdirResp(s)
  \/ \E s \in Slots : WriteResp(s)

Spec == Init /\ [][Next]_vars

----------------------------------------------------------------------------
(***************************************************************************)
(* The claims.                                                             *)
(***************************************************************************)
\* the watcher is started and left to run
NextSave ==
  \/ \E m \in MsgIds : Arrive(m)
  \/ StartCall
  \/ \E s \in Slots : LoadDone(s)
  \/ TimerTick
  \/ Returned
  \/ \E s \in Slots : HistResp(s)
  \/ \E s \in Slots : RecentResp(s)
  \/ \E s \in Slots : TokenResp(s)
  \/ \E s \in Slots : NextCand(s)
  \/ \E s \in Slots : FetchResp(s)
  \/ \E s \in Slots : ClassifyResp(s)
  \/ \E s \in Slots : ApplyResp(s)
  \/ \E s \in Slots : MkdirResp(s)
  \/ \E s \in Slots : WriteResp(s)

SaveSpec == InitSave /\ [][NextSave]_vars

\* the running watcher is left to its timer, and messages arrive
NextOverlap ==
  \/ \E m \in MsgIds : Delivered(m)
  \/ TimerTick
  \/ Returned
  \/ \E s \in Slots : HistResp(s)
  \/ \E s \in Slots : NextCand(s)
  \/ \E s \in Slots : FetchResp(s)
  \/ \E s \in Slots : ClassifyResp(s)
  \/ \E s \in Slots : ApplyResp(s)
  \/ \E s \in Slots : MkdirResp(s)
  \/ \E s \in Slots : WriteResp(s)

OverlapSpec == InitOverlap /\ [][NextOverlap]_vars

AllIdle == \A s \in Slots : cyc[s].pc = "idle"

\* C1: while the ledger is neither reset (loadProcessedIds runs once, at the
\* first start) nor trimmed, and no call has thrown, every message id causes
\* at most one call of the classifier, at most one change of the mailbox and
\* at most one increment of totalProcessed; also when a timer tick starts a
\* cycle while an earlier one is suspended in a call.
C1_ExactlyOnce ==
  (nLoads <= 1 /\ stats.errors = 0 /\ Len(processedIds) <= LedgerCap) =>
    \A m \in MsgIds : nClassify[m] <= 1 /\ nMutate[m] <= 1 /\ nCount[m] <= 1

\* the step of slot s in which processMessage finds its candidate in the ledger
LedgerHit(s) ==
  /\ cyc[s].pc = "next"
  /\ cyc[s].idx <= Len(cyc[s].cands)
  /\ SetHas(processedIds, Cand(cyc[s]))

\* C2: when processMessage is called for an id that is in the ledger, no call
\* is made for it (the cycle goes straight on to the next candidate), and the
\* counters, the ledger, the cursor, the mailbox and the file are unchanged.
C2_LedgerHitIsPureSkip ==
  [][\A s \in Slots :
       LedgerHit(s) =>
         /\ cyc'[s].pc = "next"
         /\ cyc'[s].idx = cyc[s].idx + 1
         /\ cyc'[s].cands = cyc[s].cands
         /\ UNCHANGED <<stats, processedIds, lastHistoryId, persisted, mbox,
                        histId, nClassify, nMutate, nCount>>]_vars

C2_Witness ==
  \E s \in Slots : cyc[s].nHit >= 1 /\ cyc[s].pc = "next"

\* slot s is in processMessage, or between two calls of it
InLoop(c) == c.pc \in {"next", "fetch", "classify", "apply"}

\* C3: when getMessage, classifyEmail or applyClassification throws for a
\* candidate, errors grows by exactly 1, the ledger, totalProcessed and the
\* three category counters keep their values, and the cycle goes on with the
\* next candidate; a cycle leaves its loop only past its last candidate, and
\* then into saveProcessedIds.
C3_ErrorIsolation ==
  [][\A s \in Slots :
       LET c == cyc[s] IN
       /\ (c.pc \in {"fetch", "classify", "apply"} /\ cyc'[s].pc # c.pc
             /\ nFaults' = nFaults + 1) =>
            /\ stats'.errors = stats.errors + 1
            /\ processedIds' = processedIds
            /\ stats'.totalProcessed = stats.totalProcessed
            /\ stats'.important = stats.important
            /\ stats'.review = stats.review
            /\ stats'.junk = stats.junk
            /\ cyc'[s].pc = "next"
            /\ cyc'[s].idx = c.idx + 1
            /\ cyc'[s].cands = c.cands
       /\ InLoop(c) =>
            \/ InLoop(cyc'[s]) /\ cyc'[s].cands = c.cands
                 /\ cyc'[s].idx \in {c.idx, c.idx + 1}
            \/ cyc'[s].pc = "mkdir" /\ c.idx = Len(c.cands) + 1]_vars

\* a cycle whose first candidate failed, whose second was handled, and which
\* has reached its save
C3_Witness ==
  \E s \in Slots :
    LET c == cyc[s] IN
    /\ c.pc \in {"mkdir", "write"}
    /\ Len(c.cands) = 2
    /\ c.errIds = {c.cands[1]}
    /\ c.cands[1] \notin Range(processedIds)
    /\ c.cands[2] \in Range(processedIds)
    /\ stats.errors = 1

\* C4: an id whose processing threw in one cycle, and which that cycle left
\* out of the ledger, is a candidate of the next cycle (here: of a next cycle
\* that runs alone).
C4_RetriedNextCycle ==
  \A s \in Slots :
    (cyc[s].resolved /\ cyc[s].solo) => cyc[s].owed \subseteq Range(cyc[s].cands)

\* C5: a fetched message that is in the inbox and carries the identifier that
\* ensureLabels recorded for one of the three labels is not given to the
\* classifier.
C5_ReentryGuard ==
  \A s \in Slots :
    (cyc[s].pc = "classify" /\ cyc[s].solo) =>
      ~("INBOX" \in cyc[s].email
         /\ \E k \in Categories : labelIds[k] \in cyc[s].email)

\* the call section 4.4 of the specification asks for
MappedCall(m, category) ==
  CASE category = "IMPORTANT" ->
         [op |-> "modify", id |-> m, add |-> {labelIds.IMPORTANT}, remove |-> {}]
    [] category = "REVIEW" ->
         [op |-> "modify", id |-> m, add |-> {labelIds.REVIEW},
          remove |-> {"INBOX"}]
    [] category = "JUNK" ->
         [op |-> "trash", id |-> m, add |-> {}, remove |-> {}]

CountOf(cands, verdict, k) ==
  Cardinality({i \in 1..Len(cands) : verdict[cands[i]] = k})

\* the step in which a cycle of slot s ends that began with an empty ledger,
\* no cursor and zero counters, ran alone, fetched only unlabelled inbox
\* messages, and in which no call failed
FullSyncEnd(s) ==
  LET c == cyc[s] IN
  /\ c.zero /\ c.full /\ c.solo /\ c.nErr = 0
  /\ c.pc \in {"token", "write"}
  /\ cyc'[s].pc = "idle"
  /\ nFaults' = nFaults
  /\ \A i \in 1..Len(c.recent) : c.recent[i].labelIds = {"INBOX"}

\* what section 8, scenario A, says of the counters, the ledger, the cursor
\* and the mailbox after such a cycle
FullSyncOutcome(s) ==
  LET c == cyc[s]
      tok == IF c.pc = "token" THEN histId ELSE c.tok IN
  /\ c.cands = IdsOf(c.recent)
  /\ stats'.totalProcessed = Len(c.recent)
  /\ stats'.important = CountOf(c.cands, c.verdict, "IMPORTANT")
  /\ stats'.review = CountOf(c.cands, c.verdict, "REVIEW")
  /\ stats'.junk = CountOf(c.cands, c.verdict, "JUNK")
  /\ stats'.errors = 0
  /\ Range(processedIds') = Range(c.cands)
  /\ Len(processedIds') = Len(c.cands)
  /\ lastHistoryId' = tok /\ tok # 0
  /\ \A i \in 1..Len(c.cands) :
       c.verdict[c.cands[i]] = "JUNK" =>
         "TRASH" \in mbox'[c.cands[i]] /\ "INBOX" \notin mbox'[c.cands[i]]

InMemoryIsPersisted ==
  persisted' = [exists |-> TRUE, ids |-> processedIds', historyId |-> lastHistoryId']

\* C7 as stated: after a full-sync cycle from the zero state in which no call
\* fails, the counters, ledger, cursor and mailbox are as in scenario A and
\* the persisted state equals the in-memory ledger and cursor, for every set M
\* of fetched messages.
C7_FullSyncOutcomeAnyM ==
  [][\A s \in Slots :
       FullSyncEnd(s) => FullSyncOutcome(s) /\ InMemoryIsPersisted]_vars

\* C7: after a full-sync cycle from the zero state in which no call fails,
\* totalProcessed = |M|, the category counters count the classifier's
\* verdicts, errors = 0, the ledger is the ids of M, the cursor is the token
\* getHistoryId returned, every JUNK message is trashed; the persisted state
\* equals the in-memory ledger and cursor when M is not empty, and nothing is
\* written when M is empty.
C7_FullSyncOutcome ==
  [][\A s \in Slots :
       FullSyncEnd(s) =>
         /\ FullSyncOutcome(s)
         /\ IF cyc[s].recent # <<>> THEN InMemoryIsPersisted
            ELSE UNCHANGED persisted]_vars

\* the first cycle is over: two messages, one of them trashed, all saved
C7_Witness ==
  /\ AllIdle /\ nCycles = 1 /\ nFaults = 0 /\ lanes = 1
  /\ stats.totalProcessed = 2 /\ stats.junk = 1 /\ stats.errors = 0
  /\ Range(processedIds) = MsgIds
  /\ lastHistoryId # 0
  /\ persisted = [exists |-> TRUE, ids |-> processedIds, historyId |-> lastHistoryId]

\* C8: when listHistory reports the cursor of a cycle as expired, the same
\* cycle goes on to getRecentMessages(20), takes its candidates from that
\* answer as a cycle without a cursor does, and sets the cursor to the token
\* getHistoryId returns; a cycle running alone keeps that non-null cursor to
\* its end.
C8_ExpiryRecovery ==
  [][\A s \in Slots :
       LET c == cyc[s] IN
       /\ (c.pc = "hist" /\ nExpired' = nExpired + 1 /\ cyc'[s].pc # "hist") =>
            /\ c.cur0 # 0
            /\ cyc'[s].pc = "recent"
            /\ cyc'[s].limit = RecentLimit
            /\ cyc'[s].cands = <<>>
       /\ (c.expired /\ c.pc = "recent" /\ cyc'[s].pc # "recent"
             /\ nFaults' = nFaults) =>
            /\ cyc'[s].pc = "token"
            /\ cyc'[s].cands = IdsOf(MessagesList(RecentLimit))
       /\ (c.expired /\ c.pc = "token" /\ cyc'[s].pc # "token"
             /\ nFaults' = nFaults) =>
            /\ lastHistoryId' = histId /\ histId # 0
            /\ cyc'[s].pc = IF c.cands = <<>> THEN "idle" ELSE "next"
       /\ (c.expired /\ c.solo /\ c.pc \in {"next", "fetch", "classify", "apply",
                                            "mkdir", "write"}) =>
            /\ lastHistoryId' = c.tok /\ c.tok # 0]_vars

\* a cycle that began with a cursor, was told it had expired, and now works
\* through the recent messages under a fresh cursor
C8_Witness ==
  \E s \in Slots :
    /\ cyc[s].expired /\ cyc[s].cur0 # 0
    /\ cyc[s].pc = "next" /\ cyc[s].cands # <<>>
    /\ lastHistoryId = cyc[s].tok /\ lastHistoryId # 0

\* the ids of the records of the mailbox history after h, in the order of the
\* history
EventIdsAfter(h) ==
  LET evs == SelectSeq(log, LAMBDA r : r.id > h)
  IN [i \in 1..Len(evs) |-> evs[i].messagesAdded[1]]

\* C9: when listHistory answers a cycle with the changes since its cursor, the
\* candidates are the ids of the added messages in the order of the history,
\* duplicates kept, and the cursor becomes the historyId of the answer; with
\* no changes there are no candidates, the cycle ends, and the cursor has
\* moved all the same.
C9_IncrementalResolution ==
  [][\A s \in Slots :
       LET c == cyc[s] IN
       (c.pc = "hist" /\ cyc'[s].pc # "hist" /\ nFaults' = nFaults
          /\ nExpired' = nExpired) =>
         /\ c.since # 0
         /\ lastHistoryId' = histId
         /\ IF EventIdsAfter(c.since) = <<>>
            THEN cyc'[s].pc = "idle"
            ELSE /\ cyc'[s].pc = "next"
                 /\ cyc'[s].idx = 1
                 /\ cyc'[s].cands = EventIdsAfter(c.since)]_vars

\* an incremental cycle whose candidates are the same id twice
C9_Witness ==
  \E s \in Slots :
    /\ ~cyc[s].full /\ cyc[s].pc = "next" /\ cyc[s].idx = 1
    /\ Len(cyc[s].cands) = 2
    /\ cyc[s].cands[1] = cyc[s].cands[2]
    /\ lastHistoryId > cyc[s].cur0

\* the step in which a cycle of slot s that runs alone ends because
\* listHistory, getRecentMessages or getHistoryId threw
ResolutionFails(s) ==
  /\ cyc[s].pc \in {"hist", "recent", "token"}
  /\ cyc[s].solo
  /\ cyc'[s].pc = "idle"
  /\ nFaults' = nFaults + 1

\* C10 as stated: after a cycle in which a call of the resolution threw, the
\* cursor is the cursor the cycle began with.
C10_CursorAsBefore ==
  [][\A s \in Slots :
       ResolutionFails(s) => lastHistoryId' = cyc[s].cur0]_vars

\* C10: after a cycle in which a call of the resolution threw, the cursor is
\* the cursor the cycle began with, unless listHistory had reported that
\* cursor expired: then it is null.
C10_CursorAsBeforeOrCleared ==
  [][\A s \in Slots :
       ResolutionFails(s) =>
         /\ lastHistoryId' = IF cyc[s].expired THEN 0 ELSE cyc[s].cur0
         /\ stats'.errors = stats.errors + 1
         /\ UNCHANGED <<processedIds, persisted>>]_vars

\* a cursor was set, reported expired, and the full sync that followed threw
C10_Witness ==
  /\ AllIdle /\ lanes = 1
  /\ nExpired = 1 /\ nFaults = 1 /\ stats.errors = 1
  /\ lastHistoryId = 0

\* C11: the id list saveProcessedIds hands to writeFile, and so the list in
\* processed.json after a successful save, has at most 10,000 entries; when
\* the ledger holds more than 10,000 ids at that moment the list is its last
\* 10,000 ids in insertion order, otherwise it is the whole ledger.
C11_BoundedRetention ==
  [][\A s \in Slots :
       LET c == cyc[s]
           n == Len(processedIds) IN
       /\ (c.pc = "mkdir" /\ cyc'[s].pc = "write") =>
            LET f == cyc'[s].file.ids IN
            /\ Len(f) <= LedgerCap
            /\ n > LedgerCap =>
                 /\ Len(f) = LedgerCap
                 /\ \A i \in 1..LedgerCap : f[i] = processedIds[n - LedgerCap + i]
            /\ n <= LedgerCap => f = processedIds
       /\ (c.pc = "write" /\ persisted' # persisted) =>
            /\ persisted'.exists
            /\ persisted'.ids = c.file.ids
            /\ Len(persisted'.ids) <= LedgerCap]_vars

\* a file of exactly 10,000 ids whose newest is a message of this run and
\* whose oldest is no longer the oldest id of the earlier runs
C11_Witness ==
  /\ persisted.exists
  /\ Len(persisted.ids) = LedgerCap
  /\ persisted.ids[LedgerCap] \in MsgIds
  /\ persisted.ids[1] # "1"

\* C12: in every reachable state the in-memory ledger holds at most 10,000
\* ids.
C12_LedgerCapped == Len(processedIds) <= LedgerCap

----------------------------------------------------------------------------
\* C13: a call of start() while the watcher's timer is armed loads nothing,
\* starts no cycle, arms no timer, leaves the cursor, the ledger, the stats and
\* the file as they are, does not throw, and its caller is answered success.
C13_StartWhileRunning ==
  [][(watcherInterval # 0 /\ StartCall) =>
       /\ UNCHANGED <<watcherInterval, liveTimers, lastHistoryId, processedIds,
                      stats, persisted, cyc, nLoads, nCycles>>
       /\ ret'.op = "start" /\ ret'.out = "false" /\ ret'.poll = "none"
       /\ ret'.http = "success"]_vars

\* start() has just returned from a running watcher that has handled a message
C13_Witness ==
  /\ ret.op = "start" /\ ret.out = "false" /\ ret.http = "success"
  /\ watcherInterval # 0 /\ stats.isRunning
  /\ stats.totalProcessed > 0

----------------------------------------------------------------------------
\* a call of startWatcher() is in flight: it is loading, or its first cycle
\* has not ended
Starting(s) == cyc[s].owner = "start"

\* slot s begins a cycle that a timer has started
TimerCycleBegins(s) == cyc[s].pc = "idle" /\ cyc'[s].owner = "timer"

\* C14: no cycle started by the timer begins while a call of start() has not
\* yet finished its first cycle (start loads, runs one cycle to its end, and
\* only then arms the timer).
C14_NoTickBeforeInitialCycleEnds ==
  [][\A s \in Slots : TimerCycleBegins(s) => \A t \in Slots : ~Starting(t)]_vars

----------------------------------------------------------------------------
\* C15: once stopWatcher() has returned, no cycle started by the timer begins
\* until startWatcher() is called again.
C15_NoTickAfterStop ==
  [][\A s \in Slots : TimerCycleBegins(s) => ~halted]_vars

----------------------------------------------------------------------------
\* C16: while the mailbox is not authorised, a call of start() throws and a
\* call of poll() returns, and neither loads the file, starts a cycle (so no
\* call of the Mail Service, the classifier or the file system is made), arms
\* a timer or changes the cursor, the ledger, the file or any field of stats.
C16_UnauthenticatedChangesNothing ==
  [][/\ (~authed /\ StartCall) =>
          /\ UNCHANGED <<progVars, cyc, nLoads, nCycles>>
          /\ ret'.op = "start" /\ ret'.out = "throws" /\ ret'.http = "error500"
     /\ (~authed /\ PollCall) =>
          /\ UNCHANGED <<progVars, cyc, nLoads, nCycles>>
          /\ ret'.op = "poll" /\ ret'.out = "returned" /\ ret'.at = "auth"]_vars

\* poll() has just returned from a mailbox that is not authorised and that
\* holds a new message
C16_Witness ==
  /\ ~authed
  /\ ret.op = "poll" /\ ret.out = "returned" /\ ret.at = "auth"
  /\ log # <<>>
  /\ stats = InitStats /\ processedIds = <<>>

----------------------------------------------------------------------------
\* slot s is in saveProcessedIds() and the call it waits for throws
SaveFails(s) ==
  /\ cyc[s].pc \in {"mkdir", "write"}
  /\ cyc'[s].pc = "idle"
  /\ nFaults' = nFaults + 1

\* C17: whatever call throws during a cycle, poll() returns; and when the
\* save at the end of a cycle (running alone) fails, errors grows by 1 and the
\* ledger and the cursor in memory are what they were when the save began.
C17_FailuresNeverEscape ==
  [][\A s \in Slots :
       /\ (cyc[s].pc # "idle" /\ cyc'[s].pc = "idle") => ret'.poll = "returned"
       /\ (cyc[s].solo /\ SaveFails(s)) =>
            /\ stats'.errors = stats.errors + 1
            /\ processedIds' = cyc[s].atSave.ids
            /\ lastHistoryId' = cyc[s].atSave.cursor]_vars

----------------------------------------------------------------------------
\* classifyEmail meets an internal failure: the client is not configured, the
\* remote call rejects, or the answer is not the JSON asked for or names no
\* category
InternalFailure(key, response) ==
  \/ ~key
  \/ response.kind # "json"
  \/ response.classification \notin Categories

\* C18: whatever message classifyEmail is called with and whatever fails inside
\* it, it does not throw and returns a category of the three, a confidence in
\* [0,1] and a reason; on an internal failure it returns REVIEW, confidence 0
\* and a reason.
C18_ClassifierNeverRaises ==
  \A s \in Slots : cyc[s].pc = "classify" =>
    \A response \in Responses :
      LET result == classifyEmail(apiKey, response) IN
      /\ ~result.threw
      /\ result.classification \in Categories
      /\ result.confidence \in 0..100
      /\ result.reason # ""
      /\ InternalFailure(apiKey, response) =>
           result.classification = "REVIEW" /\ result.confidence = 0

----------------------------------------------------------------------------
\* getMessage answers slot s with a message that is not in the inbox
FetchedOutsideInbox(s) ==
  /\ cyc[s].pc = "fetch"
  /\ cyc'[s].pc # "fetch"
  /\ nFaults' = nFaults
  /\ "INBOX" \notin mbox[Cand(cyc[s])]

\* C19: a fetched message whose labels do not include INBOX is added to the
\* ledger; classifyEmail is not called for it, no change is made to the
\* mailbox and no counter changes: the cycle goes on to its next candidate.
C19_NotInInboxSkip ==
  [][\A s \in Slots :
       FetchedOutsideInbox(s) =>
         /\ processedIds' = SetAdd(processedIds, Cand(cyc[s]))
         /\ SetHas(processedIds', Cand(cyc[s]))
         /\ cyc'[s].pc = "next"
         /\ cyc'[s].idx = cyc[s].idx + 1
         /\ cyc'[s].req = NoReq
         /\ UNCHANGED <<stats, mbox, nClassify, nMutate, nCount>>]_vars

\* a cycle running alone has just passed its first candidate, which was not
\* in the ledger and was fetched without error: it is not in the inbox, was
\* not classified by this cycle, and is in the ledger now
C19_Witness ==
  \E s \in Slots :
    LET c == cyc[s] IN
    /\ c.pc = "next" /\ c.idx = 2 /\ c.solo
    /\ c.nHit = 0 /\ c.nErr = 0
    /\ c.verdict[c.cands[1]] = "none"
    /\ "INBOX" \notin mbox[c.cands[1]]
    /\ ~HasOurLabel(mbox[c.cands[1]])
    /\ SetHas(processedIds, c.cands[1])

----------------------------------------------------------------------------
\* C20: in every state getWatcherStatus() returns the counters and lastRun as
\* they are, the size of the ledger as processedCount, and isRunning true
\* exactly when a repeating timer is armed; and what it returns is an object
\* of its own, so that writing to it does not write to stats.
C20_StatusSnapshot ==
  LET snapshot == getWatcherStatus(stats, processedIds) IN
  /\ ~snapshot.shared
  /\ snapshot.obj.totalProcessed = stats.totalProcessed
  /\ snapshot.obj.important = stats.important
  /\ snapshot.obj.review = stats.review
  /\ snapshot.obj.junk = stats.junk
  /\ snapshot.obj.errors = stats.errors
  /\ snapshot.obj.lastRun = stats.lastRun
  /\ snapshot.obj.processedCount = Len(processedIds)
  /\ snapshot.obj.isRunning = (liveTimers # {})

----------------------------------------------------------------------------
\* slot s begins a cycle that GET /watcher/poll has started
RouteCycleBegins(s) == cyc[s].pc = "idle" /\ cyc'[s].owner = "route"

\* C21: a request GET /watcher/poll made while the timer handle is null runs one
\* poll cycle, and when that cycle has ended the answer is success with
\* totalProcessed and lastRun as they then are; made while the handle is set,
\* it runs no cycle and answers that the watcher is already running.
C21_OneShotPollEndpoint ==
  [][/\ (GetWatcherPoll /\ watcherInterval = 0 /\ authed) =>
          /\ \E s \in Slots : RouteCycleBegins(s)
          /\ nCycles' = nCycles + 1
     /\ (GetWatcherPoll /\ watcherInterval # 0) =>
          /\ UNCHANGED <<progVars, cyc, nCycles>>
          /\ ret'.http = "already running"
     /\ \A s \in Slots :
          (cyc[s].owner = "route" /\ cyc'[s].pc = "idle") =>
            /\ ret'.http = "success"
            /\ ret'.val = <<stats'.totalProcessed, stats'.lastRun>>]_vars

----------------------------------------------------------------------------
\* the step in which the writeFile of slot s's cycle succeeds
Commits(s) ==
  /\ cyc[s].pc = "write"
  /\ cyc'[s].pc # "write"
  /\ nFaults' = nFaults

\* the step in which slot s's cycle ends having resolved no candidate
EndsWithoutCandidates(s) ==
  /\ cyc[s].pc \in {"hist", "token"}
  /\ cyc'[s].pc = "idle"
  /\ nFaults' = nFaults

\* C22: the file changes only in the step in which a cycle's writeFile
\* succeeds; that step is the cycle's last (so a cycle writes at most once),
\* the cycle had candidates and has been through all of them, and what is
\* written is one record holding ledger and cursor; a cycle that resolved no
\* candidate ends without a write, whatever it did to the cursor in memory.
C22_SingleEndOfCycleCommit ==
  [][/\ persisted' # persisted => \E s \in Slots : Commits(s)
     /\ \A s \in Slots :
          LET c == cyc[s] IN
          /\ Commits(s) =>
               /\ cyc'[s].pc = "idle"
               /\ c.cands # <<>>
               /\ c.idx = Len(c.cands) + 1
               /\ persisted' = c.file
               /\ c.file.exists
               /\ Len(c.file.ids) <= LedgerCap
          /\ EndsWithoutCandidates(s) =>
               /\ c.cands = <<>>
               /\ persisted' = persisted]_vars

\* an earlier cycle has written the file, and a later full sync that found an
\* empty inbox has just ended: its new cursor is in memory only
C22_Witness ==
  /\ persisted.exists /\ persisted.ids # <<>>
  /\ lastHistoryId # 0 /\ lastHistoryId # persisted.historyId
  /\ ret.at = "token" /\ ret.poll = "returned"
  /\ stats.errors = 0
  /\ lanes = 1

----------------------------------------------------------------------------
\* C23: at most one repeating timer is live, and it is the one whose handle
\* the watcher holds: when the handle is null (before the first start, and
\* after a stop that found the watcher running) no timer is live.
C23_SingleTimer ==
  /\ Cardinality(liveTimers) <= 1
  /\ liveTimers \subseteq {watcherInterval}

----------------------------------------------------------------------------
\* The ids the cycles have resolved as candidates while they advanced the
\* cursor up to c.  The watcher's first cursor was taken from an empty
\* history, and every later cycle asked for the records after the cursor of
\* its time: these are the ids of the records up to c.
ResolvedUpTo(c) ==
  {log[i].messagesAdded[1] : i \in {j \in 1..Len(log) : log[j].id <= c}}

\* C24: with no call failing and the ledger far below its cap, whenever the
\* file holds cursor c, every id that a cycle resolved as a candidate while
\* the cursor advanced up to c is in the file's ledger; also when cycles
\* started by the timer overlap.
C24_NoCandidateLost ==
  persisted.exists =>
    \A m \in ResolvedUpTo(persisted.historyId) : SetHas(persisted.ids, m)

----------------------------------------------------------------------------
\* the step in which getHistoryId() answers the full sync of slot s
TokenTaken(s) ==
  /\ cyc[s].pc = "token"
  /\ cyc'[s].pc # "token"
  /\ nFaults' = nFaults

\* C25: when a full sync takes its new cursor, every message then in the inbox
\* is a candidate of that cycle or is named by a history record after the new
\* cursor (so that a later listHistory from that cursor reports it).
C25_NoMessageMissedByFullSync ==
  [][\A s \in Slots :
       TokenTaken(s) =>
         \A m \in MsgIds :
           "INBOX" \in mbox[m] =>
             \/ m \in Range(cyc[s].cands)
             \/ m \in Range(EventIdsAfter(lastHistoryId'))]_vars

----------------------------------------------------------------------------
\* the five counters of stats
Counters(st) ==
  <<st.totalProcessed, st.important, st.review, st.junk, st.errors>>

\* a call made by slot s's cycle is answered
CycleStep(s) ==
  /\ cyc[s].pc \in {"hist", "recent", "token", "fetch", "classify", "apply",
                     "mkdir", "write"}
  /\ cyc'[s].pc # cyc[s].pc

\* C26: in every state, also inside overlapping cycles, totalProcessed =
\* important + review + junk; no counter ever decreases; and the counters
\* change only in a step of a poll cycle, never in the code of start(), stop()
\* or status() itself.
C26_CounterConsistency ==
  [][/\ stats.totalProcessed = stats.important + stats.review + stats.junk
     /\ stats'.totalProcessed = stats'.important + stats'.review + stats'.junk
     /\ \A i \in 1..5 : Counters(stats')[i] >= Counters(stats)[i]
     /\ Counters(stats') # Counters(stats) => \E s \in Slots : CycleStep(s)
     /\ (StartCall \/ StopCall \/ StatusCall) =>
          Counters(stats') = Counters(stats)]_vars

\* two cycles are in flight and two messages have been counted
C26_Witness ==
  /\ \A s \in Slots : cyc[s].pc # "idle"
  /\ stats.totalProcessed >= 2
  /\ stats.totalProcessed = stats.important + stats.review + stats.junk


=============================================================================
